---- MODULE Spec2Model ----
(***************************************************************************)
(* kp::BoundedPriorityQueue<int> (src/BoundedPriorityQueue.hpp) on top of  *)
(* kp::PriorityQueue<T> and kp::Node<T> (src/PriorityQueue.hpp).           *)
(*                                                                         *)
(* One queue object, driven by an arbitrary caller: every step is one call *)
(* of insert, pop or setMaxSize, run to completion (the class is           *)
(* single-threaded).  Besides the object's three fields the state records  *)
(* the call just made, the fields as they were before it, what it returned *)
(* and printed, so that pre/post statements are state predicates.          *)
(***************************************************************************)
EXTENDS Integers, Sequences, FiniteSets

\* ---------------------------------------------------------------- bounds
\* Largest id the counter hands out (m_currentId is capped at MaxId + 1).
MaxId == 4
\* Largest capacity a caller passes to the constructor or to setMaxSize.
MaxCap == 3
\* Most insert calls a recorded run of inserts holds.
MaxInserts == 5
\* Capacity of a default-constructed queue.
DefaultMaxSize == 10
\* T() for T = int, returned by pop on an empty queue.
DefaultValue == 0

\* Priorities callers pass (the ones of the demo driver's scenarios).
Priorities == {1, 10, 30}
\* Element values callers pass (T = int): T() itself and one other value.
Values == {0, 100}
Capacities == 0..MaxCap

VARIABLES
    m_queue,      \* std::vector<Node<T>>: sequence of [priority, value, id]
    m_currentId,  \* next id to hand out
    m_maxSize,    \* capacity
    health,       \* "ok" | "undefined" (an out-of-bounds access happened and
                  \*  execution went on) | "crashed" (the process died on it)
    call,         \* the call just made: [op, priority, value, newSize]
    pre,          \* [queue, currentId, maxSize] before that call
    ret,          \* what pop or contains returned (DefaultValue for the
                  \* other calls)
    out,          \* the notice the call printed ("" if none)
    acceptedIds,  \* the ids given to the nodes insert put into m_queue, in
                  \* the order of the calls
    recording,    \* which record this run keeps: "off", "pops" or "inserts"
    popped,       \* when recording pops: the nodes popped since the last
                  \* insert call, oldest first
    loop,         \* the caller's drain loop `while (!isEmpty()) pop();`:
                  \* [pc, n, pops] with pc "idle" (not in it), "loop" or
                  \* "done", n = size() on entry, pops = pops made so far
    inserted,     \* when recording inserts: the <<priority, value>> of every
                  \* insert call since construction, oldest first; recording
                  \* goes "off" at the first pop or setMaxSize
    cmp           \* two nodes and what the two orderings say of them:
                  \* [a, b, done, before, less]

vars == <<m_queue, m_currentId, m_maxSize, health, call, pre, ret, out,
          acceptedIds, recording, popped, loop, inserted, cmp>>

\* ------------------------------------------------------------------ Node
Node(priority, value, id) == [priority |-> priority, value |-> value, id |-> id]

\* operator< with the ids compared the other way round.
operatorLess_idAscending(a, b) ==
    a.priority < b.priority \/ (a.priority = b.priority /\ a.id < b.id)
\* Node::operator<: a < b.
operatorLess(a, b) ==
    a.priority < b.priority \/ (a.priority = b.priority /\ a.id > b.id)

\* compareNodes with the tie broken the other way (later id first).
compareNodes_tieLater(a, b) ==
    IF a.priority = b.priority
    THEN a.id > b.id
    ELSE a.priority > b.priority

\* PriorityQueue::compareNodes: a is placed before b.
compareNodes(a, b) ==
    IF a.priority = b.priority
    THEN a.id < b.id
    ELSE a.priority > b.priority

\* ------------------------------------------------------------- std::sort
RECURSIVE InsertSorted(_, _)
InsertSorted(n, s) ==
    IF s = <<>> THEN <<n>>
    ELSE IF compareNodes(n, Head(s)) THEN <<n>> \o s
    ELSE <<Head(s)>> \o InsertSorted(n, Tail(s))

\* The sort left out.
SortNodes_none(s) == s

RECURSIVE SortNodes(_)
SortNodes(s) ==
    IF s = <<>> THEN <<>> ELSE InsertSorted(Head(s), SortNodes(Tail(s)))

\* ------------------------------------------------------ vector primitives
front(q) == q[1]
back(q) == q[Len(q)]
\* The assignment hitting the front instead of the back.
assign_back_front(q, n) == [q EXCEPT ![1] = n]
\* m_queue.back() = n
assign_back(q, n) == [q EXCEPT ![Len(q)] = n]
\* The erase left out.
erase_begin_none(q) == q
\* The erase taking the last element instead of the first.
erase_begin_last(q) == SubSeq(q, 1, Len(q) - 1)
\* m_queue.erase(m_queue.begin())
erase_begin(q) == Tail(q)
\* The loop discarding from the front instead of the back.
RECURSIVE pop_back_while_front(_, _)
pop_back_while_front(q, max) ==
    IF Len(q) > max THEN pop_back_while_front(Tail(q), max) ELSE q

\* while (m_queue.size() > m_maxSize) m_queue.pop_back();
RECURSIVE pop_back_while(_, _)
pop_back_while(q, max) ==
    IF Len(q) > max THEN pop_back_while(SubSeq(q, 1, Len(q) - 1), max) ELSE q

\* PriorityQueue::isEmpty / size
isEmpty == m_queue = <<>>
size == Len(m_queue)
getMaxSize == m_maxSize

\* ---------------------------------------------------------------- insert
\* The room test off by one (<= for <).
hasRoom_orEqual(q, max) == Len(q) <= max
\* The first branch's test: there is room.
hasRoom(q, max) == Len(q) < max
\* The tail test accepting a tie (>= for >).
beatsTail_orEqual(priority, q) == priority >= back(q).priority
\* The second branch's test: the incoming priority beats the tail's.
beatsTail(priority, q) == priority > back(q).priority

\* The first branch without its sort.
emplaceSorted_unsorted(q, priority, value, id) ==
    Append(q, Node(priority, value, id))
\* The queue after the first branch: emplace_back, then sort.
emplaceSorted(q, priority, value, id) ==
    SortNodes(Append(q, Node(priority, value, id)))
\* The second branch leaving the queue as it is.
replaceTailSorted_kept(q, priority, value, id) == q
\* The queue after the second branch: overwrite the tail, then sort.
replaceTailSorted(q, priority, value, id) ==
    SortNodes(assign_back(q, Node(priority, value, id)))

insert(priority, value) ==
    IF hasRoom(m_queue, m_maxSize)
    THEN /\ m_currentId <= MaxId
         /\ m_queue' = emplaceSorted(m_queue, priority, value, m_currentId)
         /\ m_currentId' = m_currentId + 1
         /\ acceptedIds' = Append(acceptedIds, m_currentId)
         /\ health' = health
    ELSE IF m_queue # <<>>
    THEN IF beatsTail(priority, m_queue)
         THEN /\ m_currentId <= MaxId
              /\ m_queue' = replaceTailSorted(m_queue, priority, value, m_currentId)
              /\ m_currentId' = m_currentId + 1
              /\ acceptedIds' = Append(acceptedIds, m_currentId)
              /\ health' = health
         ELSE UNCHANGED <<m_queue, m_currentId, acceptedIds, health>>
    ELSE \* m_maxSize = 0: back() of an empty vector is undefined behaviour.
         \/ /\ health' = "crashed"                \* the read faults
            /\ UNCHANGED <<m_queue, m_currentId, acceptedIds>>
         \/ /\ health' = "undefined"              \* garbage read, test false
            /\ UNCHANGED <<m_queue, m_currentId, acceptedIds>>
         \/ /\ m_currentId <= MaxId               \* garbage read, test true:
            /\ health' = "undefined"              \* a node is written out of
            /\ m_currentId' = m_currentId + 1     \* bounds, the empty range
            /\ UNCHANGED <<m_queue, acceptedIds>>  \* is sorted

\* ------------------------------------------------------------------- pop
popValue(q) == IF q = <<>> THEN DefaultValue ELSE front(q).value
\* pop staying silent on an empty queue.
popNotice_silent(q) == ""
popNotice(q) == IF q = <<>> THEN "Queue is empty" ELSE ""
popQueue(q) == IF q = <<>> THEN q ELSE erase_begin(q)

\* ------------------------------------------------------------ setMaxSize
\* The assignment of the new capacity left out.
setMaxSizeCapacity_kept(newSize) == m_maxSize
\* m_maxSize = newSize
setMaxSizeCapacity(newSize) == newSize
\* The truncation off by one: it also drops the node at position newSize.
setMaxSizeQueue_orEqual(q, newSize) ==
    IF newSize = 0 THEN <<>> ELSE pop_back_while(q, newSize - 1)
setMaxSizeQueue(q, newSize) == pop_back_while(q, newSize)

\* -------------------------------------------------------------- contains
\* The scan's test with || for &&.
matches_either(node, priority, value) ==
    node.priority = priority \/ node.value = value
\* The scan's test: priority and value both equal the node's.
matches(node, priority, value) ==
    node.priority = priority /\ node.value = value

\* The scan: the index of the first matching node, 0 when the loop runs out.
RECURSIVE firstMatch(_, _, _, _)
firstMatch(q, i, priority, value) ==
    IF i > Len(q) THEN 0
    ELSE IF matches(q[i], priority, value) THEN i
    ELSE firstMatch(q, i + 1, priority, value)

containsResult(q, priority, value) == firstMatch(q, 1, priority, value) # 0
containsNotice(q, priority, value) ==
    IF firstMatch(q, 1, priority, value) # 0
    THEN <<"Element found: ", q[firstMatch(q, 1, priority, value)]>>
    ELSE <<"Element not found">>

\* --------------------------------------------------------------- actions
Snapshot ==
    [queue |-> m_queue, currentId |-> m_currentId, maxSize |-> m_maxSize,
     health |-> health, acceptedIds |-> acceptedIds]
Call(op, priority, value, newSize) ==
    [op |-> op, priority |-> priority, value |-> value, newSize |-> newSize]

\* All nodes with an id the model hands out.
AllNodes ==
    {Node(priority, value, id) :
        priority \in Priorities, value \in Values, id \in 1..MaxId}
\* Nothing compared yet.
NoCompare ==
    [a |-> Node(0, DefaultValue, 0), b |-> Node(0, DefaultValue, 0),
     done |-> FALSE, before |-> FALSE, less |-> FALSE]

\* The caller is not in its drain loop.
NoLoop == [pc |-> "idle", n |-> 0, pops |-> 0]

\* A queue as constructor op ("construct" with an argument,
\* "constructDefault" without) leaves it, with capacity maxSize.
Constructed(op, maxSize) ==
    /\ m_queue = <<>>
    /\ m_currentId = 1
    /\ m_maxSize = maxSize
    /\ health = "ok"
    /\ call = Call(op, 0, DefaultValue, maxSize)
    /\ pre = [queue |-> <<>>, currentId |-> 1, maxSize |-> maxSize,
              health |-> "ok", acceptedIds |-> <<>>]
    /\ acceptedIds = <<>>
    /\ ret = DefaultValue
    /\ out = ""
    /\ popped = <<>>
    /\ inserted = <<>>
    /\ loop = NoLoop

\* BoundedPriorityQueue() or BoundedPriorityQueue(maxSize).
Init ==
    /\ \/ \E maxSize \in Capacities : Constructed("construct", maxSize)
       \/ Constructed("constructDefault", DefaultMaxSize)
    /\ recording = "off"
    /\ cmp = NoCompare

\* BoundedPriorityQueue(maxSize), in a run that records what pop yields.
InitDrain ==
    /\ \E maxSize \in Capacities : Constructed("construct", maxSize)
    /\ recording = "pops"
    /\ cmp = NoCompare

\* Either constructor, in a run that records the insert calls.
InitInserts ==
    /\ \/ \E maxSize \in Capacities : Constructed("construct", maxSize)
       \/ Constructed("constructDefault", DefaultMaxSize)
    /\ recording = "inserts"
    /\ cmp = NoCompare

\* Two nodes to compare, beside a default-constructed queue.
InitOrder ==
    /\ Constructed("constructDefault", DefaultMaxSize)
    /\ recording = "off"
    /\ \E a \in AllNodes, b \in AllNodes :
          cmp = [NoCompare EXCEPT !.a = a, !.b = b]

\* A pop or setMaxSize ends a recorded run of inserts.
EndInsertRun ==
    /\ recording' = IF recording = "inserts" THEN "off" ELSE recording
    /\ inserted' = <<>>

Insert ==
    /\ health # "crashed"
    /\ loop.pc = "idle"
    /\ recording = "inserts" => Len(inserted) < MaxInserts
    /\ \E priority \in Priorities, value \in Values :
          /\ insert(priority, value)
          /\ call' = Call("insert", priority, value, 0)
          /\ inserted' = IF recording = "inserts"
                          THEN Append(inserted, <<priority, value>>)
                          ELSE inserted
    /\ pre' = Snapshot
    /\ ret' = DefaultValue
    /\ out' = ""
    /\ popped' = <<>>
    /\ UNCHANGED <<m_maxSize, recording, loop, cmp>>

\* One call of pop().
pop ==
    /\ ret' = popValue(m_queue)
    /\ out' = popNotice(m_queue)
    /\ m_queue' = popQueue(m_queue)
    /\ popped' = IF recording = "pops" /\ m_queue # <<>>
                 THEN Append(popped, front(m_queue))
                 ELSE popped
    /\ call' = Call("pop", 0, DefaultValue, 0)
    /\ pre' = Snapshot
    /\ EndInsertRun
    /\ UNCHANGED <<m_currentId, m_maxSize, health, acceptedIds, cmp>>

Pop ==
    /\ health # "crashed"
    /\ loop.pc = "idle"
    /\ pop
    /\ UNCHANGED loop

SetMaxSize ==
    /\ health # "crashed"
    /\ loop.pc = "idle"
    /\ \E newSize \in Capacities :
          /\ m_maxSize' = setMaxSizeCapacity(newSize)
          /\ m_queue' = setMaxSizeQueue(m_queue, m_maxSize')
          /\ call' = Call("setMaxSize", 0, DefaultValue, newSize)
    /\ pre' = Snapshot
    /\ ret' = DefaultValue
    /\ out' = ""
    /\ EndInsertRun
    /\ UNCHANGED <<m_currentId, health, acceptedIds, popped, loop, cmp>>

Contains ==
    /\ health # "crashed"
    /\ loop.pc = "idle"
    /\ \E priority \in Priorities, value \in Values :
          /\ ret' = containsResult(m_queue, priority, value)
          /\ out' = containsNotice(m_queue, priority, value)
          /\ call' = Call("contains", priority, value, 0)
    /\ pre' = Snapshot
    /\ UNCHANGED <<m_queue, m_currentId, m_maxSize, health, acceptedIds,
                   recording, popped, inserted, loop, cmp>>

\* The caller reaches `while (!queue.isEmpty())`.
DrainBegin ==
    /\ health # "crashed"
    /\ loop.pc = "idle"
    /\ loop' = [pc |-> "loop", n |-> size, pops |-> 0]
    /\ UNCHANGED <<m_queue, m_currentId, m_maxSize, health, call, pre, ret,
                   out, acceptedIds, recording, popped, inserted, cmp>>

\* The loop test is true: the body pops.
DrainPop ==
    /\ loop.pc = "loop"
    /\ ~isEmpty
    /\ pop
    /\ loop' = [loop EXCEPT !.pops = @ + 1]

\* The loop test is false: the loop is left.
DrainExit ==
    /\ loop.pc = "loop"
    /\ isEmpty
    /\ loop' = [loop EXCEPT !.pc = "done"]
    /\ UNCHANGED <<m_queue, m_currentId, m_maxSize, health, call, pre, ret,
                   out, acceptedIds, recording, popped, inserted, cmp>>

\* The caller goes on after the loop.
DrainLeave ==
    /\ loop.pc = "done"
    /\ loop' = NoLoop
    /\ UNCHANGED <<m_queue, m_currentId, m_maxSize, health, call, pre, ret,
                   out, acceptedIds, recording, popped, inserted, cmp>>

\* Both orderings are applied to the two nodes.
Compare ==
    /\ ~cmp.done
    /\ cmp' = [cmp EXCEPT !.done = TRUE,
                          !.before = compareNodes(cmp.a, cmp.b),
                          !.less = operatorLess(cmp.b, cmp.a)]
    /\ UNCHANGED <<m_queue, m_currentId, m_maxSize, health, call, pre, ret,
                   out, acceptedIds, recording, popped, loop, inserted>>

\* The mutating operations.
Next == Insert \/ Pop \/ SetMaxSize
\* The mutating operations and the query.
NextContains == Insert \/ Pop \/ SetMaxSize \/ Contains

Spec == Init /\ [][Next]_vars
SpecDrain == InitDrain /\ [][Next]_vars
SpecContains == Init /\ [][NextContains]_vars
SpecInserts == InitInserts /\ [][Next]_vars

SpecOrder == InitOrder /\ [][Compare]_vars

\* The mutating operations and the caller's drain loop.
NextLoop ==
    Insert \/ Pop \/ SetMaxSize \/ DrainBegin \/ DrainPop \/ DrainExit
        \/ DrainLeave
\* Once in the loop the caller keeps executing it: nothing else runs.
SpecLoop ==
    Init /\ [][NextLoop]_vars /\ WF_vars(DrainPop) /\ WF_vars(DrainExit)

\* ================================================================ claims
\* Helpers of the statements below.
Nodes(q) == {q[i] : i \in 1..Len(q)}
Without(q, n) == SelectSeq(q, LAMBDA x : x # n)
\* x stands before y in the order the specification gives.
Before(x, y) ==
    \/ x.priority > y.priority
    \/ x.priority = y.priority /\ x.id < y.id
\* The node the call just made would have created.
NewNode == Node(call.priority, call.value, pre.currentId)

\* C1: in every reachable state each node stands before its successor:
\* its priority is higher, or equal with a smaller id.
C1_SortedOrder ==
    \A i \in 1..(Len(m_queue) - 1) :
        \/ m_queue[i].priority > m_queue[i + 1].priority
        \/ /\ m_queue[i].priority = m_queue[i + 1].priority
           /\ m_queue[i].id < m_queue[i + 1].id

\* A full queue of three after an evicting insert: the newest node leads,
\* two earlier nodes tie behind it.
C1_Witness ==
    /\ call.op = "insert"
    /\ Len(pre.queue) = 3
    /\ Len(m_queue) = 3
    /\ m_queue[1] = NewNode
    /\ m_queue[1].priority > m_queue[2].priority
    /\ m_queue[2].priority = m_queue[3].priority

\* C2: in every reachable state size() <= getMaxSize().
C2_Capacity == size <= getMaxSize

\* A shrinking setMaxSize has just cut a longer queue down to the new,
\* non-zero capacity.
C2_Witness ==
    /\ call.op = "setMaxSize"
    /\ Len(pre.queue) > call.newSize
    /\ call.newSize >= 1
    /\ size = getMaxSize

\* The last call was insert(p, v) on a full queue with p above the tail's
\* priority.
EvictionCase ==
    /\ call.op = "insert"
    /\ pre.queue # <<>>
    /\ Len(pre.queue) = pre.maxSize
    /\ call.priority > back(pre.queue).priority

\* C3: after an evicting insert the size is unchanged, the former tail (lowest
\* priority, and the largest id among the lowest) is the only node removed,
\* the one new node (p, v, fresh id) is present, and all other nodes are kept
\* as they were and in the same relative order.
C3_Eviction ==
    EvictionCase =>
        /\ size = Len(pre.queue)
        /\ Nodes(pre.queue) \ Nodes(m_queue) = {back(pre.queue)}
        /\ \A n \in Nodes(pre.queue) :
              \/ n.priority > back(pre.queue).priority
              \/ /\ n.priority = back(pre.queue).priority
                 /\ n.id <= back(pre.queue).id
        /\ Nodes(m_queue) \ Nodes(pre.queue) = {NewNode}
        /\ \A n \in Nodes(pre.queue) : n.id # NewNode.id
        /\ Without(m_queue, NewNode)
              = SubSeq(pre.queue, 1, Len(pre.queue) - 1)

\* An evicting insert into a full queue of three whose new node lands between
\* the two nodes that stay.
C3_Witness ==
    /\ EvictionCase
    /\ Len(pre.queue) = 3
    /\ m_queue[2] = NewNode
    /\ m_queue[1] = pre.queue[1]
    /\ m_queue[3] = pre.queue[2]

\* The last call was insert(p, v) on a full queue with p at or below the
\* tail's priority.
RejectionCase ==
    /\ call.op = "insert"
    /\ pre.queue # <<>>
    /\ Len(pre.queue) = pre.maxSize
    /\ call.priority <= back(pre.queue).priority

\* C4: an insert on a full queue with p <= the tail's priority (the tie
\* included) leaves the sequence of nodes and maxSize exactly as they were.
C4_Rejection ==
    RejectionCase =>
        /\ m_queue = pre.queue
        /\ m_maxSize = pre.maxSize

\* A rejected insert whose priority ties the tail's, with another value.
C4_Witness ==
    /\ RejectionCase
    /\ Len(pre.queue) >= 2
    /\ call.priority = back(pre.queue).priority
    /\ call.value # back(pre.queue).value

\* The last call was insert(p, v) on a queue with room.
RoomCase ==
    /\ call.op = "insert"
    /\ Len(pre.queue) < pre.maxSize

\* C5: an insert under capacity grows the queue by exactly one, keeps every
\* previous node unchanged and in the same relative order, and places the new
\* node (p, v, fresh id) after every node of priority >= p and before every
\* node of priority < p.
C5_InsertWithRoom ==
    RoomCase =>
        /\ size = Len(pre.queue) + 1
        /\ Without(m_queue, NewNode) = pre.queue
        /\ \A n \in Nodes(pre.queue) : n.id # NewNode.id
        /\ \E i \in 1..Len(m_queue) :
              /\ m_queue[i] = NewNode
              /\ \A j \in 1..(i - 1) : m_queue[j].priority >= call.priority
              /\ \A j \in (i + 1)..Len(m_queue) :
                    m_queue[j].priority < call.priority

\* An insert with room that lands in the middle: behind an earlier node of
\* the same priority, ahead of a lower one.
C5_Witness ==
    /\ RoomCase
    /\ Len(m_queue) = 3
    /\ m_queue[2] = NewNode
    /\ m_queue[1].priority = call.priority
    /\ m_queue[3].priority < call.priority

\* An insert with room whose priority is below every priority in the queue.
C5_WitnessLowest ==
    /\ RoomCase
    /\ Len(m_queue) = 3
    /\ m_queue[3] = NewNode
    /\ m_queue[2].priority > call.priority

\* The last call was pop() on a non-empty queue.
PopCase ==
    /\ call.op = "pop"
    /\ pre.queue # <<>>

\* C6: pop on a non-empty queue returns the value of the head node, which has
\* the maximum priority and, among the nodes of that priority, the smallest
\* id; exactly that node is removed, size() drops by one, and the remaining
\* nodes and their order are unchanged.
C6_Pop ==
    PopCase =>
        /\ ret = pre.queue[1].value
        /\ \A n \in Nodes(pre.queue) :
              \/ pre.queue[1].priority > n.priority
              \/ /\ pre.queue[1].priority = n.priority
                 /\ pre.queue[1].id <= n.id
        /\ size = Len(pre.queue) - 1
        /\ Nodes(pre.queue) \ Nodes(m_queue) = {pre.queue[1]}
        /\ m_queue = SubSeq(pre.queue, 2, Len(pre.queue))

\* A pop from three nodes whose first two tie in priority and differ in
\* value: the earlier one's value comes back.
C6_Witness ==
    /\ PopCase
    /\ Len(pre.queue) = 3
    /\ pre.queue[1].priority = pre.queue[2].priority
    /\ pre.queue[1].value # pre.queue[2].value
    /\ pre.queue[2].priority > pre.queue[3].priority
    /\ ret = pre.queue[1].value

\* The last call was pop() on an empty queue.
EmptyPopCase ==
    /\ call.op = "pop"
    /\ pre.queue = <<>>

\* C7: pop on an empty queue returns the element type's default (0 for int),
\* prints "Queue is empty", raises no error and leaves the sequence (still
\* empty), maxSize and the id counter as they were.
C7_EmptyPop ==
    EmptyPopCase =>
        /\ ret = 0
        /\ out = "Queue is empty"
        /\ health = pre.health
        /\ m_queue = <<>>
        /\ m_maxSize = pre.maxSize
        /\ m_currentId = pre.currentId

\* A pop on a queue that has been used and drained, with room for more.
C7_Witness ==
    /\ EmptyPopCase
    /\ pre.currentId > 1
    /\ m_maxSize >= 1
    /\ health = "ok"

\* An insert right after a pop on an empty, used queue is accepted as usual.
C7_WitnessReuse ==
    /\ RoomCase
    /\ pre.queue = <<>>
    /\ pre.currentId > 1
    /\ m_queue = <<NewNode>>

\* C8: the nodes yielded by consecutive pops with no insert in between come in
\* non-increasing priority and, among equal priorities, in insertion order
\* (ascending id).
C8_PopOrder ==
    \A i \in 1..(Len(popped) - 1) :
        \/ popped[i].priority > popped[i + 1].priority
        \/ /\ popped[i].priority = popped[i + 1].priority
           /\ popped[i].id < popped[i + 1].id

\* Priorities 10, 30, 1 inserted in that order have been popped as 30, 10, 1.
C8_Witness ==
    /\ Len(popped) = 3
    /\ popped[1].priority = 30 /\ popped[1].id = 2
    /\ popped[2].priority = 10 /\ popped[2].id = 1
    /\ popped[3].priority = 1 /\ popped[3].id = 3

\* Two nodes of one priority have been popped in the order they went in.
C8_WitnessFifo ==
    /\ Len(popped) = 2
    /\ popped[1].priority = popped[2].priority
    /\ popped[1].id < popped[2].id

\* The last call was setMaxSize(k) with more than k nodes in the queue.
ShrinkCase ==
    /\ call.op = "setMaxSize"
    /\ Len(pre.queue) > call.newSize

\* C9: after a shrinking setMaxSize(k), getMaxSize() = k, size() = k and the
\* sequence is the first k nodes of the sequence before the call; every
\* discarded node stood behind every node kept.
C9_Shrink ==
    ShrinkCase =>
        /\ getMaxSize = call.newSize
        /\ size = call.newSize
        /\ m_queue = SubSeq(pre.queue, 1, call.newSize)
        /\ \A kept \in Nodes(m_queue) :
              \A gone \in Nodes(pre.queue) \ Nodes(m_queue) :
                  Before(kept, gone)

\* setMaxSize(2) on three nodes, as in the demo driver.
C9_Witness ==
    /\ ShrinkCase
    /\ Len(pre.queue) = 3
    /\ call.newSize = 2
    /\ Len(m_queue) = 2

\* The last call was setMaxSize(k) with at most k nodes in the queue.
NoShrinkCase ==
    /\ call.op = "setMaxSize"
    /\ Len(pre.queue) <= call.newSize

\* C10: setMaxSize(k) with size() <= k leaves the sequence of nodes exactly
\* unchanged and changes only maxSize (to k); a setMaxSize(k) that repeats the
\* current capacity changes nothing at all.
C10_NoShrink ==
    /\ NoShrinkCase =>
          /\ m_queue = pre.queue
          /\ m_currentId = pre.currentId
          /\ health = pre.health
          /\ m_maxSize = call.newSize
    /\ (call.op = "setMaxSize" /\ call.newSize = pre.maxSize) =>
          /\ m_queue = pre.queue
          /\ m_currentId = pre.currentId
          /\ health = pre.health
          /\ m_maxSize = pre.maxSize

\* setMaxSize(k) on a queue of exactly k nodes, lowering the capacity to k.
C10_Witness ==
    /\ NoShrinkCase
    /\ Len(pre.queue) = call.newSize
    /\ call.newSize >= 2
    /\ pre.maxSize > call.newSize

\* setMaxSize(k) repeated with the capacity already k and the queue full.
C10_WitnessRepeat ==
    /\ call.op = "setMaxSize"
    /\ call.newSize = pre.maxSize
    /\ Len(pre.queue) = call.newSize
    /\ call.newSize >= 2

\* C11: contains(p, v) returns true exactly when some node of the current
\* sequence has priority p and value v together (p in one node and v in
\* another gives false), and the call leaves the queue as it was.
C11_Contains ==
    call.op = "contains" =>
        /\ ret = (\E n \in Nodes(pre.queue) :
                     n.priority = call.priority /\ n.value = call.value)
        /\ m_queue = pre.queue
        /\ m_currentId = pre.currentId
        /\ m_maxSize = pre.maxSize
        /\ health = pre.health

\* contains(p, v) answered false although one node has priority p and
\* another node has value v.
C11_Witness ==
    /\ call.op = "contains"
    /\ ret = FALSE
    /\ \E n \in Nodes(m_queue) : n.priority = call.priority
    /\ \E n \in Nodes(m_queue) : n.value = call.value

\* contains(p, v) answered true for a pair held by the last of three nodes.
C11_WitnessFound ==
    /\ call.op = "contains"
    /\ ret = TRUE
    /\ Len(m_queue) = 3
    /\ ~ \E i \in 1..2 : m_queue[i].priority = call.priority
    /\ out = <<"Element found: ", m_queue[3]>>

\* What C12 says of the ids in every state apart from the first id being 1:
\* the ids in the sequence are pairwise distinct, at least 1 and below the
\* counter; the ids of accepted nodes strictly increase; the nodes of the
\* sequence are nodes it held before the call, unchanged, or the new node.
IdsDistinctAndIncreasing ==
    /\ \A i, j \in 1..Len(m_queue) :
          i # j => m_queue[i].id # m_queue[j].id
    /\ \A n \in Nodes(m_queue) : n.id >= 1 /\ n.id < m_currentId
    /\ \A i \in 1..(Len(acceptedIds) - 1) : acceptedIds[i] < acceptedIds[i + 1]
    /\ Nodes(m_queue) \subseteq
          Nodes(pre.queue) \cup (IF call.op = "insert" THEN {NewNode} ELSE {})

\* C12: a fresh queue gives its first accepted node id 1; the ids in the
\* sequence are pairwise distinct, at least 1 and below the next-id counter;
\* a node accepted later has a larger id than every node accepted earlier;
\* no operation changes the id of a node that stays.
C12_Ids ==
    /\ acceptedIds # <<>> => acceptedIds[1] = 1
    /\ IdsDistinctAndIncreasing

\* C13: getMaxSize() is 10 after the default constructor and the argument
\* after the other one; setMaxSize(k) makes it k; insert, pop and contains
\* leave it as it was.
C13_MaxSize ==
    /\ call.op = "constructDefault" => getMaxSize = 10
    /\ call.op = "construct" => getMaxSize = call.newSize
    /\ call.op = "setMaxSize" => getMaxSize = call.newSize
    /\ call.op \in {"insert", "pop", "contains"} => getMaxSize = pre.maxSize

\* Three inserts into a default-constructed queue, as in the demo driver:
\* the capacity is still 10.
C13_Witness ==
    /\ call.op = "insert"
    /\ Len(m_queue) = 3
    /\ acceptedIds = <<1, 2, 3>>
    /\ getMaxSize = 10

\* setMaxSize(k) has replaced a different capacity by k.
C13_WitnessSet ==
    /\ call.op = "setMaxSize"
    /\ pre.maxSize # call.newSize
    /\ getMaxSize = call.newSize

\* C14: whenever insert runs its at-capacity branch (size() >= maxSize) the
\* sequence is non-empty, so the tail it compares against exists; with
\* maxSize = 0 insert is a no-op.
C14_TailExists ==
    /\ (call.op = "insert" /\ Len(pre.queue) >= pre.maxSize) =>
          pre.queue # <<>>
    /\ (call.op = "insert" /\ pre.maxSize = 0) =>
          /\ m_queue = pre.queue
          /\ m_currentId = pre.currentId
          /\ health = pre.health

\* The stable sort of a list of <<priority, value>> pairs by descending
\* priority: each pair goes behind all pairs before it of priority >= its own.
RECURSIVE PlaceStable(_, _)
PlaceStable(s, e) ==
    IF s = <<>> THEN <<e>>
    ELSE IF Head(s)[1] >= e[1] THEN <<Head(s)>> \o PlaceStable(Tail(s), e)
    ELSE <<e>> \o s
RECURSIVE StableSorted(_)
StableSorted(s) ==
    IF s = <<>> THEN <<>>
    ELSE PlaceStable(StableSorted(SubSeq(s, 1, Len(s) - 1)), s[Len(s)])
FirstN(s, n) == SubSeq(s, 1, IF Len(s) < n THEN Len(s) ELSE n)
Pairs(q) == [i \in 1..Len(q) |-> <<q[i].priority, q[i].value>>]

\* C15: after insert calls only, on a fresh queue of capacity N >= 1, the
\* queue is the first N elements of the stably sorted list (higher priority
\* first, earlier call first among equals) of all inserted pairs.
C15_TopN ==
    (recording = "inserts" /\ m_maxSize >= 1) =>
        Pairs(m_queue) = FirstN(StableSorted(inserted), m_maxSize)

\* Five inserts into a queue of capacity 3: three filled it, one evicted the
\* minimum, one was rejected.
C15_Witness ==
    /\ recording = "inserts"
    /\ m_maxSize = 3
    /\ Len(inserted) = 5
    /\ Len(acceptedIds) = 4
    /\ Len(m_queue) = 3

\* What C16 says of the counter and the accepted ids.
NoGaps ==
    /\ RejectionCase => m_currentId = pre.currentId
    /\ \A i \in 1..Len(acceptedIds) : acceptedIds[i] = i
    /\ m_currentId = 1 + Len(acceptedIds)

\* C16: a rejected insert does not advance the id counter; the ids of the
\* accepted nodes are 1, 2, 3, ... in acceptance order without gaps, and the
\* counter is always 1 plus the number of inserts accepted so far.
C16_NoGaps == NoGaps

\* C12's first id and C16's count hold in every state reached without an
\* insert on an empty queue of capacity 0.
IdsWithoutTailFault ==
    health = "ok" =>
        /\ NoGaps
        /\ acceptedIds # <<>> => acceptedIds[1] = 1

\* A tie with the tail has been rejected by a full queue that had already
\* evicted a node: the counter did not move.
RejectedKeepsCounter ==
    /\ RejectionCase
    /\ health = "ok"
    /\ Len(acceptedIds) > Len(m_queue)
    /\ m_currentId = pre.currentId

\* What C17 says of every state: in the loop the pops made and the nodes left
\* add up to the size on entry, the loop is left after exactly that many pops
\* with the queue empty, a pop on a non-empty queue takes exactly one node,
\* and isEmpty() is true exactly when size() is 0.
DrainCount ==
    /\ loop.pc = "loop" => size = loop.n - loop.pops
    /\ loop.pc = "done" => loop.pops = loop.n /\ isEmpty /\ size = 0
    /\ PopCase => size = Len(pre.queue) - 1
    /\ isEmpty <=> size = 0

\* C17: from any reachable state with size() = n the loop
\* `while (!isEmpty()) pop();` makes exactly n pops and then stops with
\* isEmpty() true and size() = 0.
C17_DrainTerminates ==
    /\ []DrainCount
    /\ (loop.pc = "loop") ~> (loop.pc = "done")

\* The loop has been left after three pops on a queue that held three nodes.
C17_Witness ==
    /\ loop.pc = "done"
    /\ loop.n = 3
    /\ loop.pops = 3
    /\ isEmpty

\* C18: for all nodes a and b, compareNodes(a, b) (a is placed before b) is
\* true exactly when b < a under Node::operator<.
C18_OrderingsAgree ==
    cmp.done => (cmp.before <=> cmp.less)

\* Two nodes of one priority, a with the smaller id: compareNodes puts a
\* first and operator< calls b the lesser.
C18_Witness ==
    /\ cmp.done
    /\ cmp.a.priority = cmp.b.priority
    /\ cmp.a.id < cmp.b.id
    /\ cmp.before
    /\ cmp.less

====
